---- MODULE Spec2Model ----
(***************************************************************************)
(* Model of nanodet/util/logger.py: the running statistics (MovingAverage, *)
(* AverageMeter), the rank-gated log sinks (NanoDetLightningLogger,        *)
(* NanoDetWandbLogger) and the evaluation-table pipeline of the wandb sink.*)
(*                                                                         *)
(* Numbers: confidences are held in hundredths (0.25 is 25); a quotient    *)
(* computed by Python's true division is held as the reduced fraction      *)
(* <<numerator, denominator>> with denominator > 0, an integer n as        *)
(* <<n, 1>>.                                                               *)
(***************************************************************************)
EXTENDS Integers, Sequences, FiniteSets, TLC

VARIABLES
    meter,      \* AverageMeter object: [val, avg, sum, count]
    updates,    \* history: the <<v, n>> of every update since the last reset
    mavg,       \* MovingAverage object: [window_size, queue]
    pushed,     \* history: the values pushed since the last reset
    avg_out,    \* what the last MovingAverage.avg() call returned (NoCall before)
    kind,       \* which sink class the job constructed: "lightning" or "wandb"
    sink,       \* per process: the sink object's fields
    disk,       \* per process: the paths the process has created
    textlog,    \* per process: the lines written to logs.txt
    scalars,    \* per process: the points written to the scalar-series writer
    remote,     \* per process: the calls issued to the tracking service
    dataset,    \* the dataset provider's current contents (a version of the file names)
    provider_calls, \* per process: how often build_dataset was called
    call,       \* the last sink operation invoked: [proc, op, err, args]
    eval_in,    \* the results mapping of the last log_val_results that ran its body
    eval_rows,  \* eval_table_rows at the end of that call
    eval_sent,  \* the log_table calls that call issued
    sample_in,  \* _log_eval_sample alone: its preds argument
    sample_out  \* _log_eval_sample alone: the row it returned (NoCall before)

meterVars == <<meter, updates>>
movingVars == <<mavg, pushed, avg_out>>
sinkVars == <<kind, sink, disk, textlog, scalars, remote, dataset, provider_calls,
              call, eval_in, eval_rows, eval_sent>>
sampleVars == <<sample_in, sample_out>>
vars == <<meterVars, movingVars, sinkVars, sampleVars>>

-----------------------------------------------------------------------------
(* Bounds of the model *)

MaxUpdates == 3     \* AverageMeter: updates followed since construction/reset
MaxPushes == 4      \* MovingAverage: pushes followed since construction/reset
MaxWindow == 3      \* MovingAverage: largest window_size tried

MeterVals == {-1, 1, 2}
Mults == -1 .. 2
PushVals == {1, 2, 5}
WindowSizes == -1 .. MaxWindow

\* float('nan'): the quotient 0/0
NaN == <<0, 0>>
\* no avg() call has returned yet
NoCall == <<>>

-----------------------------------------------------------------------------
(* Arithmetic helpers *)

Abs(x) == IF x < 0 THEN -x ELSE x

Min(a, b) == IF a < b THEN a ELSE b

RECURSIVE GCD(_, _)
GCD(a, b) == IF b = 0 THEN a ELSE GCD(b, a % b)

\* Python's a / b for b > 0, as a reduced fraction
TrueDiv(a, b) ==
    LET g == GCD(Abs(a), b) IN <<a \div g, b \div g>>

\* the integer n as a fraction
Frac(n) == <<n, 1>>

\* the fraction q equals a / b (b > 0)
RatEq(q, a, b) == q[2] > 0 /\ q[1] * b = a * q[2]

RECURSIVE SumSeq(_)
SumSeq(s) == IF s = <<>> THEN 0 ELSE Head(s) + SumSeq(Tail(s))

\* the last k elements of s (all of s when k >= Len(s), none when k <= 0)
LastN(s, k) ==
    IF k <= 0 THEN <<>>
    ELSE IF k >= Len(s) THEN s
    ELSE SubSeq(s, Len(s) - k + 1, Len(s))

-----------------------------------------------------------------------------
(* AverageMeter *)

AverageMeter_reset_obj ==
    [val |-> 0, avg |-> Frac(0), sum |-> 0, count |-> 0]

\* update with the product dropped: sum += val
AverageMeter_update_noweight(m, v, n) ==
    LET s == m.sum + v
        c == m.count + n
    IN [val |-> v, sum |-> s, count |-> c,
        avg |-> IF c > 0 THEN TrueDiv(s, c) ELSE m.avg]

\* update that zeroes avg when the count is not positive
AverageMeter_update_zeroavg(m, v, n) ==
    LET s == m.sum + v * n
        c == m.count + n
    IN [val |-> v, sum |-> s, count |-> c,
        avg |-> IF c > 0 THEN TrueDiv(s, c) ELSE Frac(0)]

\* update that overwrites the count: count = n
AverageMeter_update_setcount(m, v, n) ==
    LET s == m.sum + v * n
        c == n
    IN [val |-> v, sum |-> s, count |-> c,
        avg |-> IF c > 0 THEN TrueDiv(s, c) ELSE m.avg]

AverageMeter_update_obj(m, v, n) ==
    LET s == m.sum + v * n
        c == m.count + n
    IN [val |-> v, sum |-> s, count |-> c,
        avg |-> IF c > 0 THEN TrueDiv(s, c) ELSE m.avg]

AverageMeter_init(v) == AverageMeter_update_obj(AverageMeter_reset_obj, v, 1)

\* reset that leaves avg as it was
AverageMeter_reset_keepavg ==
    /\ meter' = [AverageMeter_reset_obj EXCEPT !.avg = meter.avg]
    /\ updates' = <<>>
    /\ UNCHANGED <<movingVars, sinkVars, sampleVars>>

AverageMeter_reset ==
    /\ meter' = AverageMeter_reset_obj
    /\ updates' = <<>>
    /\ UNCHANGED <<movingVars, sinkVars, sampleVars>>

AverageMeter_update ==
    /\ Len(updates) < MaxUpdates
    /\ \E v \in MeterVals, n \in Mults :
        /\ meter' = AverageMeter_update_obj(meter, v, n)
        /\ updates' = Append(updates, <<v, n>>)
    /\ UNCHANGED <<movingVars, sinkVars, sampleVars>>

-----------------------------------------------------------------------------
(* MovingAverage *)

MovingAverage_reset_obj(m) == [m EXCEPT !.queue = <<>>]

\* push that evicts the newest entry instead of the oldest: queue.pop(-1)
MovingAverage_push_lifo(m, v) ==
    LET q == Append(m.queue, v)
    IN [m EXCEPT !.queue =
            IF Len(q) > m.window_size THEN SubSeq(q, 1, Len(q) - 1) ELSE q]

\* push that compares with >= instead of >
MovingAverage_push_ge(m, v) ==
    LET q == Append(m.queue, v)
    IN [m EXCEPT !.queue = IF Len(q) >= m.window_size THEN Tail(q) ELSE q]

MovingAverage_push_obj(m, v) ==
    LET q == Append(m.queue, v)
    IN [m EXCEPT !.queue = IF Len(q) > m.window_size THEN Tail(q) ELSE q]

\* np.mean of a list: nan for the empty list
MovingAverage_avg_obj(m) ==
    IF m.queue = <<>> THEN NaN ELSE TrueDiv(SumSeq(m.queue), Len(m.queue))

MovingAverage_init(v, w) ==
    MovingAverage_push_obj(
        MovingAverage_reset_obj([window_size |-> w, queue |-> <<>>]), v)

MovingAverage_reset ==
    /\ mavg' = MovingAverage_reset_obj(mavg)
    /\ pushed' = <<>>
    /\ UNCHANGED <<avg_out, meterVars, sinkVars, sampleVars>>

MovingAverage_push ==
    /\ Len(pushed) < MaxPushes
    /\ \E v \in PushVals :
        /\ mavg' = MovingAverage_push_obj(mavg, v)
        /\ pushed' = Append(pushed, v)
    /\ UNCHANGED <<avg_out, meterVars, sinkVars, sampleVars>>

MovingAverage_avg ==
    /\ avg_out' = MovingAverage_avg_obj(mavg)
    /\ UNCHANGED <<mavg, pushed, meterVars, sinkVars, sampleVars>>

-----------------------------------------------------------------------------
(* Inputs of the sinks *)

NumProcs == 2       \* processes of the job; a process's rank is its number
NumSamples == 2     \* sample ids of the validation split
MaxDets == 2        \* detections per class in one sample's predictions
MaxLines == 1       \* text lines / remote log calls followed per process
MaxEvalCalls == 2   \* log_val_results calls followed per process

Procs == 0 .. NumProcs - 1
SampleIds == 1 .. NumSamples
NumEvalChoices == -1 .. NumSamples

\* conf >= 0.25, in hundredths
Threshold == 25

\* cfg.class_names and cfg.data.val.img_path
ClassNames == <<"cat", "dog">>
ImgPath == "val_images"
ClassIds == 0 .. Len(ClassNames) - 1

\* (x1, y1, x2, y2, conf)
Detections ==
    { <<0, 0, 10, 10, 90>>, <<5, 5, 8, 8, 10>>, <<1, 2, 3, 4, 25>>, <<2, 2, 6, 6, 24>> }

DetLists == UNION { [1 .. n -> Detections] : n \in 0 .. MaxDets }

\* a dict is held as the sequence of its <<key, value>> items in iteration order
DistinctKeys(items) ==
    \A i, j \in 1 .. Len(items) : i # j => items[i][1] # items[j][1]

\* preds: Dict[class id, list of detections]
PredsSet ==
    { s \in UNION { [1 .. n -> ClassIds \X DetLists] : n \in 0 .. Len(ClassNames) } :
        DistinctKeys(s) }

\* an absent value (None) and a present one
NoneOpt == [some |-> FALSE]
Some(x) == [some |-> TRUE, val |-> x]

\* Python's s[:k]
SliceTo(s, k) ==
    LET n == IF k >= 0 THEN Min(k, Len(s))
             ELSE IF Len(s) + k > 0 THEN Len(s) + k ELSE 0
    IN SubSeq(s, 1, n)

-----------------------------------------------------------------------------
(* NanoDetWandbLogger._log_eval_sample *)

\* the threshold test with > instead of >=
Qualifies_gt(conf) == conf > Threshold

Qualifies(conf) == conf >= Threshold

\* the (cls, detection) pairs in the order the two nested loops visit them
RECURSIVE Visits(_)
Visits(preds) ==
    IF preds = <<>> THEN <<>>
    ELSE LET cls == Head(preds)[1]
             dets == Head(preds)[2]
         IN [i \in 1 .. Len(dets) |-> <<cls, dets[i]>>] \o Visits(Tail(preds))

\* f"{classes[cls]} {conf:.3f}": the name and the confidence in thousandths
Caption(classes, cls, conf) == <<classes[cls + 1], conf * 10>>

Box(cls, det, classes) ==
    [position |-> [minX |-> det[1], minY |-> det[2], maxX |-> det[3], maxY |-> det[4]],
     class_id |-> cls,
     box_caption |-> Caption(classes, cls, det[5]),
     scores |-> [class_score |-> det[5]],
     domain |-> "pixel"]

\* loop body that counts a detection before testing its confidence
Visit_countall(acc, cls, det, classes) ==
    LET counted == IF cls \in DOMAIN acc.pred_class_count
                   THEN [acc.pred_class_count EXCEPT ![cls] = @ + 1]
                   ELSE acc.pred_class_count @@ (cls :> 1)
    IN IF Qualifies(det[5])
       THEN [box_data |-> Append(acc.box_data, Box(cls, det, classes)),
             avg_conf_per_class |->
                 [acc.avg_conf_per_class EXCEPT ![cls + 1] = @ + det[5]],
             pred_class_count |-> counted]
       ELSE [acc EXCEPT !.pred_class_count = counted]

\* one pass of the inner loop body
Visit(acc, cls, det, classes) ==
    IF Qualifies(det[5])
    THEN [box_data |-> Append(acc.box_data, Box(cls, det, classes)),
          avg_conf_per_class |->
              [acc.avg_conf_per_class EXCEPT ![cls + 1] = @ + det[5]],
          pred_class_count |->
              IF cls \in DOMAIN acc.pred_class_count
              THEN [acc.pred_class_count EXCEPT ![cls] = @ + 1]
              ELSE acc.pred_class_count @@ (cls :> 1)]
    ELSE acc

RECURSIVE Scan(_, _, _)
Scan(acc, visits, classes) ==
    IF visits = <<>> THEN acc
    ELSE Scan(Visit(acc, Head(visits)[1], Head(visits)[2], classes),
              Tail(visits), classes)

\* a row that carries an average only for the classes with a counted detection
log_eval_sample_sparse(sample_id, sample_path, preds, classes) ==
    LET start == [box_data |-> <<>>,
                  avg_conf_per_class |-> [i \in 1 .. Len(classes) |-> 0],
                  pred_class_count |-> <<>>]
        acc == Scan(start, Visits(preds), classes)
        avgs == [i \in 1 .. Len(classes) |->
                    IF (i - 1) \in DOMAIN acc.pred_class_count
                    THEN TrueDiv(acc.avg_conf_per_class[i], acc.pred_class_count[i - 1])
                    ELSE <<>>]
        wandb_img == [path |-> sample_path,
                      boxes |-> [predictions |->
                                    [box_data |-> acc.box_data,
                                     class_labels |-> classes]],
                      classes |-> classes]
    IN <<sample_id, wandb_img>> \o SelectSeq(avgs, LAMBDA q : q # <<>>)

\* returns [sample_id, wandb_img, *avg_conf_per_class]
log_eval_sample(sample_id, sample_path, preds, classes) ==
    LET start == [box_data |-> <<>>,
                  avg_conf_per_class |-> [i \in 1 .. Len(classes) |-> 0],
                  pred_class_count |-> <<>>]
        acc == Scan(start, Visits(preds), classes)
        avgs == [i \in 1 .. Len(classes) |->
                    IF (i - 1) \in DOMAIN acc.pred_class_count
                    THEN TrueDiv(acc.avg_conf_per_class[i], acc.pred_class_count[i - 1])
                    ELSE Frac(acc.avg_conf_per_class[i])]
        wandb_img == [path |-> sample_path,
                      boxes |-> [predictions |->
                                    [box_data |-> acc.box_data,
                                     class_labels |-> classes]],
                      classes |-> classes]
    IN <<sample_id, wandb_img>> \o avgs

LogEvalSample ==
    /\ sample_out = NoCall
    /\ \E id \in SampleIds :
        sample_out' = log_eval_sample(id, <<ImgPath, "f">>, sample_in, ClassNames)
    /\ UNCHANGED <<sample_in, meterVars, movingVars, sinkVars>>

-----------------------------------------------------------------------------
(* Inputs of the sink operations *)

\* num_eval_samples=16, the constructors' default
DefaultNumEvalSamples == 16

Kinds == {"lightning", "wandb"}
Strings == {"epoch done"}
Params == {"lr=0.1"}
Prefixes == {"", "Val_metrics/"}
Steps == {1, 2}

\* metrics: mapping name -> scalar
MetricsSet == { <<>>, << <<"mAP", 7>> >>, << <<"mAP", 7>>, <<"loss", 3>> >> }

\* the predictions of the sample {0: [(0,0,10,10,0.9)], 1: [(5,5,8,8,0.1)]}
PredsExample ==
    << <<0, << <<0, 0, 10, 10, 90>> >> >>, <<1, << <<5, 5, 8, 8, 10>> >> >> >>
\* predictions with no detection at or above the threshold
PredsLow == << <<1, << <<5, 5, 8, 8, 10>> >> >> >>
TablePreds == { PredsExample, PredsLow }

\* results: Dict[sample id, preds]; the ids are ids of the validation split, the
\* class ids index cfg.class_names
ResultsSet ==
    { r \in UNION { [1 .. n -> SampleIds \X TablePreds] : n \in 0 .. NumSamples } :
        DistinctKeys(r) }
SmallResults == { <<>>, << <<1, PredsExample>> >> }

\* build_dataset(cfg.data.val, "test"): one record per sample id of the split,
\* mapped to {id: file_name}
Provider(ds) == [i \in SampleIds |-> <<"file", i, ds>>]

-----------------------------------------------------------------------------
(* Rank gating and construction *)

\* @rank_zero_only runs the method only when rank_zero_only.rank == 0
RankZero(p) == p = 0

\* nothing is kept of a call's arguments or result
NoArgs == <<>>

\* the record of a sink call; args keeps the arguments the body ran with, or the
\* object the call returned; a sink call touches no statistic object
CalledWith(p, op, err, args) ==
    /\ call' = [proc |-> p, op |-> op, err |-> err, args |-> args]
    /\ UNCHANGED <<meterVars, movingVars, sampleVars>>

Called(p, op, err) == CalledWith(p, op, err, NoArgs)

backends == <<disk, textlog, scalars, remote>>
evalVars == <<eval_in, eval_rows, eval_sent>>

\* a call the decorator turned into `return None`
Skipped(p, op) ==
    /\ Called(p, op, "none")
    /\ UNCHANGED <<kind, sink, backends, dataset, provider_calls, evalVars>>

\* NanoDetLightningLogger.__init__: makedirs(log_dir), then _init_logger under
\* @rank_zero_only (the FileHandler opens logs.txt)
NanoDetLightningLogger_init_sink(p) ==
    [logger |-> RankZero(p), _experiment |-> NoneOpt]

NanoDetLightningLogger_init_disk(p) ==
    {"log_dir"} \cup (IF RankZero(p) THEN {"log_dir/logs.txt"} ELSE {})

\* NanoDetWandbLogger.__init__
NanoDetWandbLogger_init_sink(p, num_eval_samples) ==
    [_prefix |-> "", _num_eval_samples |-> num_eval_samples, _id_to_name |-> NoneOpt]

InitSinks(kinds, nums) ==
    /\ kind \in kinds
    /\ \E n \in nums :
        sink = [p \in Procs |->
                   IF kind = "lightning" THEN NanoDetLightningLogger_init_sink(p)
                   ELSE NanoDetWandbLogger_init_sink(p, n)]
    /\ disk = [p \in Procs |->
                  IF kind = "lightning" THEN NanoDetLightningLogger_init_disk(p) ELSE {}]
    /\ textlog = [p \in Procs |-> <<>>]
    /\ scalars = [p \in Procs |-> <<>>]
    /\ remote = [p \in Procs |-> [log |-> <<>>, tables |-> 0]]
    /\ dataset = 0
    /\ provider_calls = [p \in Procs |-> 0]
    /\ call = [proc |-> 0, op |-> "__init__", err |-> "none", args |-> NoArgs]
    /\ eval_in = <<>>
    /\ eval_rows = <<>>
    /\ eval_sent = <<>>

-----------------------------------------------------------------------------
(* NanoDetLightningLogger *)

NanoDetLightningLogger_info(p) ==
    /\ kind = "lightning"
    /\ Len(textlog[p]) < MaxLines
    /\ \E string \in Strings :
        IF RankZero(p)
        THEN /\ textlog' = [textlog EXCEPT ![p] = Append(@, <<"INFO", string>>)]
             /\ Called(p, "info", "none")
             /\ UNCHANGED <<kind, sink, disk, scalars, remote, dataset, provider_calls,
                            evalVars>>
        ELSE Skipped(p, "info")

NanoDetLightningLogger_log(p) ==
    /\ kind = "lightning"
    /\ Len(textlog[p]) < MaxLines
    /\ \E string \in Strings :
        IF RankZero(p)
        THEN /\ textlog' = [textlog EXCEPT ![p] = Append(@, <<"INFO", string>>)]
             /\ Called(p, "log", "none")
             /\ UNCHANGED <<kind, sink, disk, scalars, remote, dataset, provider_calls,
                            evalVars>>
        ELSE Skipped(p, "log")

\* dump_cfg without the decorator
NanoDetLightningLogger_dump_cfg_ungated(p) ==
    /\ kind = "lightning"
    /\ disk' = [disk EXCEPT ![p] = @ \cup {"log_dir/train_cfg.yml"}]
    /\ Called(p, "dump_cfg", "none")
    /\ UNCHANGED <<kind, sink, textlog, scalars, remote, dataset, provider_calls,
                   evalVars>>

NanoDetLightningLogger_dump_cfg(p) ==
    /\ kind = "lightning"
    /\ IF RankZero(p)
       THEN /\ disk' = [disk EXCEPT ![p] = @ \cup {"log_dir/train_cfg.yml"}]
            /\ Called(p, "dump_cfg", "none")
            /\ UNCHANGED <<kind, sink, textlog, scalars, remote, dataset, provider_calls,
                           evalVars>>
       ELSE Skipped(p, "dump_cfg")

NanoDetLightningLogger_log_hyperparams(p) ==
    /\ kind = "lightning"
    /\ Len(textlog[p]) < MaxLines
    /\ \E params \in Params :
        IF RankZero(p)
        THEN /\ textlog' = [textlog EXCEPT ![p] = Append(@, <<"INFO", "hyperparams: ", params>>)]
             /\ Called(p, "log_hyperparams", "none")
             /\ UNCHANGED <<kind, sink, disk, scalars, remote, dataset, provider_calls,
                            evalVars>>
        ELSE Skipped(p, "log_hyperparams")

\* the points the loop of log_metrics adds: add_scalars(prefix + k, {"Val": v}, step)
ScalarPoints(metrics, step, prefix) ==
    [i \in 1 .. Len(metrics) |->
        [tag |-> prefix \o metrics[i][1], series |-> "Val",
         value |-> metrics[i][2], step |-> step]]

\* the loop of log_metrics reads self.experiment before the loop, once per call
TouchesExperiment_hoisted(metrics) == TRUE

\* the loop of log_metrics reads self.experiment once per item of metrics
TouchesExperiment(metrics) == metrics # <<>>

NanoDetLightningLogger_log_metrics(p) ==
    /\ kind = "lightning"
    /\ Len(textlog[p]) < MaxLines
    /\ \E metrics \in MetricsSet, step \in Steps, prefix \in Prefixes :
        IF RankZero(p)
        THEN /\ textlog' = [textlog EXCEPT ![p] = Append(@, <<"INFO", prefix, ": ", metrics>>)]
             \* the first read of self.experiment builds the writer
             /\ IF TouchesExperiment(metrics)
                THEN /\ sink' = [sink EXCEPT ![p]._experiment =
                                    IF @.some THEN @ ELSE Some("SummaryWriter")]
                     /\ disk' = [disk EXCEPT ![p] = @ \cup {"log_dir/events"}]
                     /\ scalars' = [scalars EXCEPT ![p] =
                                       @ \o ScalarPoints(metrics, step, prefix)]
                ELSE UNCHANGED <<sink, disk, scalars>>
             /\ CalledWith(p, "log_metrics", "none",
                           [metrics |-> metrics, step |-> step, prefix |-> prefix])
             /\ UNCHANGED <<kind, remote, dataset, provider_calls, evalVars>>
        ELSE Skipped(p, "log_metrics")

\* the experiment property. @rank_zero_experiment runs the body only on rank 0 and
\* hands every other rank a DummyExperiment, whose methods do nothing; the body
\* builds the SummaryWriter on its first run
NanoDetLightningLogger_experiment(p) ==
    /\ kind = "lightning"
    /\ IF RankZero(p)
       THEN /\ sink' = [sink EXCEPT ![p]._experiment =
                           IF @.some THEN @ ELSE Some("SummaryWriter")]
            /\ disk' = [disk EXCEPT ![p] = @ \cup {"log_dir/events"}]
            /\ CalledWith(p, "experiment", "none", [returned |-> "SummaryWriter"])
       ELSE /\ UNCHANGED <<sink, disk>>
            /\ CalledWith(p, "experiment", "none", [returned |-> "DummyExperiment"])
    /\ UNCHANGED <<kind, textlog, scalars, remote, dataset, provider_calls, evalVars>>

\* experiment.flush(); experiment.close(); save()
NanoDetLightningLogger_finalize(p) ==
    /\ kind = "lightning"
    /\ IF RankZero(p)
       THEN /\ sink' = [sink EXCEPT ![p]._experiment =
                           IF @.some THEN @ ELSE Some("SummaryWriter")]
            /\ disk' = [disk EXCEPT ![p] = @ \cup {"log_dir/events"}]
       ELSE UNCHANGED <<sink, disk>>
    /\ Called(p, "finalize", "none")
    /\ UNCHANGED <<kind, textlog, scalars, remote, dataset, provider_calls, evalVars>>

\* the body is `pass`
NanoDetLightningLogger_log_val_results(p) ==
    /\ kind = "lightning"
    /\ \E results \in SmallResults : Skipped(p, "log_val_results")

-----------------------------------------------------------------------------
(* NanoDetWandbLogger *)

\* the body is `pass`
NanoDetWandbLogger_info(p) ==
    /\ kind = "wandb"
    /\ \E string \in Strings : Skipped(p, "info")

\* the body is `pass`
NanoDetWandbLogger_dump_cfg(p) ==
    /\ kind = "wandb"
    /\ Skipped(p, "dump_cfg")

\* the class defines no log method and inherits none: the call raises
NanoDetWandbLogger_log(p) ==
    /\ kind = "wandb"
    /\ \E string \in Strings :
        /\ Called(p, "log", "AttributeError")
        /\ UNCHANGED <<kind, sink, backends, dataset, provider_calls, evalVars>>

\* WandbLogger._add_prefix: the key is the name, or prefix, "-" and the name
PrefixedKey(prefix, name) == IF prefix = "" THEN name ELSE prefix \o "-" \o name

\* self._prefix = prefix; super().log_metrics(metrics, step)
NanoDetWandbLogger_log_metrics(p) ==
    /\ kind = "wandb"
    /\ Len(remote[p].log) < MaxLines
    /\ \E metrics \in MetricsSet, step \in Steps, prefix \in Prefixes :
        IF RankZero(p)
        THEN /\ sink' = [sink EXCEPT ![p]._prefix = prefix]
             /\ remote' = [remote EXCEPT ![p].log = Append(@,
                              [op |-> "log",
                               metrics |-> [i \in 1 .. Len(metrics) |->
                                   <<PrefixedKey(prefix, metrics[i][1]), metrics[i][2]>>],
                               step |-> step])]
             /\ CalledWith(p, "log_metrics", "none",
                           [metrics |-> metrics, step |-> step, prefix |-> prefix])
             /\ UNCHANGED <<kind, disk, textlog, scalars, dataset, provider_calls,
                            evalVars>>
        ELSE Skipped(p, "log_metrics")

\* inherited from WandbLogger, where it is rank-zero-only: experiment.config.update
NanoDetWandbLogger_log_hyperparams(p) ==
    /\ kind = "wandb"
    /\ Len(remote[p].log) < MaxLines
    /\ \E params \in Params :
        IF RankZero(p)
        THEN /\ remote' = [remote EXCEPT ![p].log = Append(@,
                              [op |-> "config", params |-> params])]
             /\ Called(p, "log_hyperparams", "none")
             /\ UNCHANGED <<kind, sink, disk, textlog, scalars, dataset, provider_calls,
                            evalVars>>
        ELSE Skipped(p, "log_hyperparams")

\* inherited from WandbLogger, where it is rank-zero-only
NanoDetWandbLogger_finalize(p) ==
    /\ kind = "wandb"
    /\ Called(p, "finalize", "none")
    /\ UNCHANGED <<kind, sink, backends, dataset, provider_calls, evalVars>>

-----------------------------------------------------------------------------
(* NanoDetWandbLogger._log_eval_table *)

\* max_len without the cap
MaxLen_nocap(results, num_eval_samples) == Len(results)

\* max_len = min(len(results.keys()), self._num_eval_samples)
MaxLen(results, num_eval_samples) == Min(Len(results), num_eval_samples)

\* the build test without `self._id_to_name is None`
NeedsBuild_always(max_len, id_to_name) == max_len > 0

\* if max_len > 0 and self._id_to_name is None
NeedsBuild(max_len, id_to_name) == max_len > 0 /\ ~id_to_name.some

\* a loop that appends a row only for a sample with a box to show
EvalRows_skipempty(selected, id_to_name) ==
    LET all == [i \in 1 .. Len(selected) |->
                   log_eval_sample(selected[i][1],
                                   <<ImgPath, id_to_name[selected[i][1]]>>,
                                   selected[i][2], ClassNames)]
    IN SelectSeq(all, LAMBDA row : row[2].boxes.predictions.box_data # <<>>)

\* the loop over list(results.keys())[:max_len], with the cache built
EvalRows(selected, id_to_name) ==
    [i \in 1 .. Len(selected) |->
        log_eval_sample(selected[i][1],
                        <<ImgPath, id_to_name[selected[i][1]]>>,
                        selected[i][2], ClassNames)]

\* log_table without the `if eval_table_rows` test
TableCalls_always(rows) ==
    << [key |-> "eval_samples",
        columns |-> <<"id", "prediction">> \o ClassNames,
        data |-> rows] >>

\* if eval_table_rows: self.log_table(key=..., columns=..., data=...)
TableCalls(rows) ==
    IF rows # <<>>
    THEN << [key |-> "eval_samples",
             columns |-> <<"id", "prediction">> \o ClassNames,
             data |-> rows] >>
    ELSE <<>>

NanoDetWandbLogger_log_eval_table(p, results) ==
    IF RankZero(p)
    THEN LET max_len == MaxLen(results, sink[p]._num_eval_samples)
             build == NeedsBuild(max_len, sink[p]._id_to_name)
             cache == IF build THEN Some(Provider(dataset)) ELSE sink[p]._id_to_name
             selected == SliceTo(results, max_len)
             \* None[res_id]: 'NoneType' object is not subscriptable
             fails == selected # <<>> /\ ~cache.some
         IN /\ sink' = [sink EXCEPT ![p]._id_to_name = cache]
            /\ provider_calls' = [provider_calls EXCEPT ![p] = IF build THEN @ + 1 ELSE @]
            /\ eval_in' = results
            /\ eval_rows' = IF fails \/ selected = <<>> THEN <<>>
                            ELSE EvalRows(selected, cache.val)
            /\ eval_sent' = IF fails THEN <<>> ELSE TableCalls(eval_rows')
            /\ remote' = [remote EXCEPT ![p].tables = @ + Len(eval_sent')]
            /\ Called(p, "log_val_results", IF fails THEN "TypeError" ELSE "none")
            /\ UNCHANGED <<kind, disk, textlog, scalars, dataset>>
    ELSE Skipped(p, "log_val_results")

NanoDetWandbLogger_log_val_results(p, results) ==
    /\ kind = "wandb"
    /\ remote[p].tables < MaxEvalCalls
    /\ IF RankZero(p)
       THEN NanoDetWandbLogger_log_eval_table(p, results)
       ELSE Skipped(p, "log_val_results")

\* the environment: the files behind the validation split are replaced
DatasetChange ==
    /\ kind = "wandb"
    /\ dataset' = 1 - dataset
    /\ UNCHANGED <<kind, sink, backends, provider_calls, call, evalVars>>
    /\ UNCHANGED <<meterVars, movingVars, sampleVars>>

-----------------------------------------------------------------------------
(* Specifications *)

MeterIdle == meter = AverageMeter_init(1) /\ updates = << <<1, 1>> >>
MovingIdle == mavg = MovingAverage_init(1, 1) /\ pushed = <<1>> /\ avg_out = NoCall
SampleIdle == sample_in = <<>> /\ sample_out = NoCall
SinksIdle == InitSinks({"lightning"}, {DefaultNumEvalSamples})

\* the sinks of a multi-process job
Init ==
    /\ InitSinks(Kinds, {DefaultNumEvalSamples})
    /\ MeterIdle /\ MovingIdle /\ SampleIdle

Next ==
    \E p \in Procs :
        \/ NanoDetLightningLogger_info(p)
        \/ NanoDetLightningLogger_log(p)
        \/ NanoDetLightningLogger_dump_cfg(p)
        \/ NanoDetLightningLogger_log_hyperparams(p)
        \/ NanoDetLightningLogger_log_metrics(p)
        \/ NanoDetLightningLogger_experiment(p)
        \/ NanoDetLightningLogger_finalize(p)
        \/ NanoDetLightningLogger_log_val_results(p)
        \/ NanoDetWandbLogger_info(p)
        \/ NanoDetWandbLogger_dump_cfg(p)
        \/ NanoDetWandbLogger_log(p)
        \/ NanoDetWandbLogger_log_metrics(p)
        \/ NanoDetWandbLogger_log_hyperparams(p)
        \/ NanoDetWandbLogger_finalize(p)
        \/ \E results \in SmallResults : NanoDetWandbLogger_log_val_results(p, results)

Spec == Init /\ [][Next]_vars

\* the evaluation table of the wandb sink, over every results mapping
InitEval ==
    /\ InitSinks({"wandb"}, NumEvalChoices)
    /\ MeterIdle /\ MovingIdle /\ SampleIdle

NextEval ==
    \/ \E results \in ResultsSet : NanoDetWandbLogger_log_val_results(0, results)
    \/ \E p \in Procs \ {0} : \E results \in SmallResults :
            NanoDetWandbLogger_log_val_results(p, results)
    \/ DatasetChange

SpecEval == InitEval /\ [][NextEval]_vars

\* _log_eval_sample as a pure function of its preds argument
InitSample ==
    /\ sample_in \in PredsSet
    /\ sample_out = NoCall
    /\ SinksIdle /\ MeterIdle /\ MovingIdle

NextSample == LogEvalSample

SpecSample == InitSample /\ [][NextSample]_vars

\* one AverageMeter
InitMeter ==
    /\ \E v \in MeterVals :
        /\ meter = AverageMeter_init(v)
        /\ updates = << <<v, 1>> >>
    /\ MovingIdle /\ SampleIdle /\ SinksIdle

NextMeter == AverageMeter_update \/ AverageMeter_reset

SpecMeter == InitMeter /\ [][NextMeter]_vars

\* one MovingAverage
InitMoving ==
    /\ \E v \in PushVals, w \in WindowSizes :
        /\ mavg = MovingAverage_init(v, w)
        /\ pushed = <<v>>
    /\ avg_out = NoCall
    /\ MeterIdle /\ SampleIdle /\ SinksIdle

NextMoving == MovingAverage_push \/ MovingAverage_reset \/ MovingAverage_avg

SpecMoving == InitMoving /\ [][NextMoving]_vars

\* one statistic object of either class: the two classes share no state, so a run
\* works on one object and the object of the other class stays as constructed
InitStats == InitMeter \/ InitMoving

NextStats ==
    \/ MovingIdle /\ NextMeter
    \/ MeterIdle /\ NextMoving

SpecStats == InitStats /\ [][NextStats]_vars

-----------------------------------------------------------------------------
(* Properties *)

RECURSIVE WeightedSum(_)
WeightedSum(us) ==
    IF us = <<>> THEN 0 ELSE Head(us)[1] * Head(us)[2] + WeightedSum(Tail(us))

RECURSIVE WeightSum(_)
WeightSum(us) == IF us = <<>> THEN 0 ELSE Head(us)[2] + WeightSum(Tail(us))

\* C1: after construction with v_0 (multiplicity 1) and any updates (v_i, n_i) with
\* no reset in between, sum is the sum of v_i*n_i, count is the sum of n_i, and
\* whenever count > 0 avg equals sum / count.
C1_MeterSums ==
    /\ meter.sum = WeightedSum(updates)
    /\ meter.count = WeightSum(updates)
    /\ meter.count > 0 => RatEq(meter.avg, meter.sum, meter.count)

\* three updates since construction, one of multiplicity 2, and a fractional average
C1_Witness ==
    /\ Len(updates) = 3
    /\ updates[1][2] = 1
    /\ \E i \in 2 .. 3 : updates[i][2] = 2
    /\ meter.count > 0
    /\ meter.avg[2] > 1

\* C2: for every window size W >= 0, after each push the number of stored values
\* never exceeds W and equals min(pushes since construction or the last reset, W).
C2_WindowSize ==
    mavg.window_size >= 0 =>
        /\ Len(mavg.queue) <= mavg.window_size
        /\ Len(mavg.queue) = Min(Len(pushed), mavg.window_size)

\* more pushes than the window holds
C2_Witness ==
    /\ mavg.window_size = 2
    /\ Len(pushed) = 4
    /\ Len(mavg.queue) = 2

\* C3: after k pushes with window size W, the retained values are exactly the last
\* min(k, W) pushed values in push order, and avg() is their arithmetic mean.
C3_Fifo ==
    LET keep == LastN(pushed, Min(Len(pushed), mavg.window_size))
    IN /\ mavg.queue = keep
       /\ keep # <<>> =>
            RatEq(MovingAverage_avg_obj(mavg), SumSeq(keep), Len(keep))

\* an eviction happened, the evicted value differs from the retained ones, and avg()
\* was called on the result
C3_Witness ==
    /\ mavg.window_size = 2
    /\ Len(pushed) = 4
    /\ pushed[1] # pushed[3] /\ pushed[2] # pushed[4] /\ pushed[3] # pushed[4]
    /\ mavg.queue = <<pushed[3], pushed[4]>>
    /\ avg_out = MovingAverage_avg_obj(mavg)

\* C4: in a multi-process job only the process of rank 0 ever writes to a backend;
\* on a process of rank # 0 no sink operation creates a file, writes a line or a
\* scalar, or issues a call to the tracking service or the dataset provider.
C4_RankZeroOnlyWrites ==
    [][\A p \in Procs \ {0} :
          /\ disk'[p] = disk[p]
          /\ textlog'[p] = textlog[p]
          /\ scalars'[p] = scalars[p]
          /\ remote'[p] = remote[p]
          /\ provider_calls'[p] = provider_calls[p]]_vars

\* a process of rank 1 has just called log_val_results on the wandb sink, after rank
\* 0 submitted a table
C4_Witness ==
    /\ kind = "wandb"
    /\ call.proc = 1
    /\ call.op = "log_val_results"
    /\ remote[0].tables = 1
    /\ remote[1].tables = 0

\* the first n elements of s (none when n <= 0)
FirstN(s, n) == [i \in 1 .. (IF n < 0 THEN 0 ELSE Min(n, Len(s))) |-> s[i]]

\* the number of samples one call selects: min(len(results), num_eval_samples)
Cap == Min(Len(eval_in), sink[0]._num_eval_samples)

\* no detection of any class in any of these samples reaches the threshold
NoQualifying(samples) ==
    \A i \in 1 .. Len(samples) :
        \A j \in 1 .. Len(samples[i][2]) :
            \A k \in 1 .. Len(samples[i][2][j][2]) :
                samples[i][2][j][2][k][5] < Threshold

BoxesOf(row) == row[2].boxes.predictions.box_data

\* C5 as stated: when no detection of any class in any selected sample has
\* confidence >= 0.25, zero rows are produced and no log_table call is issued.
C5_NoQualifyingNoRows ==
    NoQualifying(FirstN(eval_in, Cap)) => eval_rows = <<>> /\ eval_sent = <<>>

\* C5 amended: zero rows are produced and no log_table call is issued exactly when
\* min(len(results), num_eval_samples) <= 0; when no detection of any selected
\* sample has confidence >= 0.25, every selected sample still yields its row, with
\* no box and every per-class average 0, and the table of these rows is submitted.
C5_NoQualifyingEmptyRows ==
    /\ (eval_rows = <<>> /\ eval_sent = <<>>) <=> Cap <= 0
    /\ NoQualifying(FirstN(eval_in, Cap)) =>
        /\ Len(eval_rows) = Len(FirstN(eval_in, Cap))
        /\ \A i \in 1 .. Len(eval_rows) :
            /\ BoxesOf(eval_rows[i]) = <<>>
            /\ \A c \in ClassIds : eval_rows[i][3 + c] = Frac(0)
        /\ Cap > 0 => Len(eval_sent) = 1 /\ eval_sent[1].data = eval_rows

\* rank 0 logged one sample whose only detection is below the threshold
C5_Witness ==
    /\ call.proc = 0 /\ call.op = "log_val_results"
    /\ eval_in = << <<1, PredsLow>> >>
    /\ Len(eval_rows) = 1
    /\ Len(eval_sent) = 1

\* C6: for every num_eval_samples >= 0 one log_val_results call produces exactly
\* min(len(results), num_eval_samples) rows, one per sample id, for the first ids
\* of the results mapping in its iteration order.
C6_SampleCap ==
    sink[0]._num_eval_samples >= 0 =>
        /\ Len(eval_rows) = Cap
        /\ \A i \in 1 .. Cap : eval_rows[i][1] = eval_in[i][1]

\* more results than the cap: two samples, one row, for the first id
C6_Witness ==
    /\ call.proc = 0 /\ call.op = "log_val_results"
    /\ sink[0]._num_eval_samples = 1
    /\ Len(eval_in) = 2
    /\ eval_in[1][1] = 2
    /\ Len(eval_rows) = 1
    /\ eval_rows[1][1] = 2

\* the detections of class c in preds that reach the threshold, in order
QualifyingOf(preds, c) ==
    SelectSeq(Visits(preds), LAMBDA v : v[1] = c /\ v[2][5] >= Threshold)

\* every detection of preds that reaches the threshold, in class-then-detection order
QualifyingAll(preds) ==
    SelectSeq(Visits(preds), LAMBDA v : v[2][5] >= Threshold)

ConfSum(visits) == SumSeq([i \in 1 .. Len(visits) |-> visits[i][2][5]])

\* C7: for each class c the reported value is (sum of the confidences of the
\* sample's class-c detections with confidence >= 0.25) / (their number) when one
\* exists, and exactly 0 when none exists.
C7_PerClassAverage ==
    sample_out # NoCall =>
        \A c \in ClassIds :
            LET q == QualifyingOf(sample_in, c)
            IN IF q # <<>>
               THEN RatEq(sample_out[3 + c], ConfSum(q), Len(q))
               ELSE sample_out[3 + c] = Frac(0)

\* class 0 has a detection at 0.9 and one at 0.1, class 1 only one at 0.24
C7_Witness ==
    /\ sample_out # NoCall
    /\ sample_in = << <<0, << <<0, 0, 10, 10, 90>>, <<5, 5, 8, 8, 10>> >> >>,
                     <<1, << <<2, 2, 6, 6, 24>> >> >> >>
    /\ sample_out[3] = <<90, 1>>
    /\ sample_out[4] = <<0, 1>>

\* C8: the boxes of a row are exactly one box per detection whose confidence is
\* >= 0.25 (0.25 included), each with the detection's corners, class id, confidence
\* and domain "pixel", in class-then-detection order.
C8_BoxThreshold ==
    sample_out # NoCall =>
        LET q == QualifyingAll(sample_in)
            boxes == BoxesOf(sample_out)
        IN /\ Len(boxes) = Len(q)
           /\ \A i \in 1 .. Len(q) :
                /\ boxes[i].position =
                       [minX |-> q[i][2][1], minY |-> q[i][2][2],
                        maxX |-> q[i][2][3], maxY |-> q[i][2][4]]
                /\ boxes[i].class_id = q[i][1]
                /\ boxes[i].scores.class_score = q[i][2][5]
                /\ boxes[i].domain = "pixel"

\* a detection at exactly 0.25 is boxed, the one at 0.24 before it is not
C8_Witness ==
    /\ sample_out # NoCall
    /\ sample_in = << <<1, << <<2, 2, 6, 6, 24>>, <<1, 2, 3, 4, 25>> >> >> >>
    /\ Len(BoxesOf(sample_out)) = 1
    /\ BoxesOf(sample_out)[1].scores.class_score = 25

\* C9: a log_val_results call issues at most one table submission; it issues one,
\* keyed "eval_samples", with columns ["id", "prediction", *class_names] and all the
\* rows of the call, if and only if at least one row was produced.
C9_TableSubmission ==
    [][/\ Len(eval_sent') <= 1
       /\ Len(eval_sent') = 1 <=> eval_rows' # <<>>
       /\ eval_sent' # <<>> =>
            /\ eval_sent'[1].key = "eval_samples"
            /\ eval_sent'[1].columns = <<"id", "prediction", "cat", "dog">>
            /\ eval_sent'[1].data = eval_rows'
       /\ remote'[0].tables \in {remote[0].tables, remote[0].tables + 1}
       /\ remote'[0].tables # remote[0].tables => eval_sent' # <<>>]_vars

\* an earlier call submitted a table; the last call had no results and submitted none
C9_Witness ==
    /\ call.proc = 0 /\ call.op = "log_val_results"
    /\ remote[0].tables = 1
    /\ eval_in = <<>>
    /\ eval_sent = <<>>
    /\ sink[0]._id_to_name.some

\* C10: over any sequence of log_val_results calls, and whatever the dataset
\* provider returns meanwhile, the provider is called at most once, on the first
\* call that selects at least one sample, and the cache never changes afterwards.
C10_CacheBuiltOnce ==
    [][\A p \in Procs :
        LET old == sink[p]._id_to_name
            new == sink'[p]._id_to_name
        IN /\ provider_calls'[p] <= 1
           /\ provider_calls'[p] = (IF new.some THEN 1 ELSE 0)
           /\ old.some => new = old
           /\ (~old.some /\ new.some) =>
                /\ call'.proc = p /\ call'.op = "log_val_results"
                /\ Min(Len(eval_in'), sink[p]._num_eval_samples) > 0
                /\ new.val = Provider(dataset)
           /\ (p = 0 /\ ~new.some) =>
                Min(Len(eval_in'), sink[p]._num_eval_samples) <= 0]_vars

\* the cache was built from the first contents of the dataset, the contents have
\* changed, and two tables have been submitted
C10_Witness ==
    /\ sink[0]._id_to_name = Some(Provider(0))
    /\ dataset = 1
    /\ provider_calls[0] = 1
    /\ remote[0].tables = 2
    /\ eval_rows # <<>>
    /\ eval_rows[1][2].path = <<ImgPath, <<"file", eval_rows[1][1], 0>> >>

\* C11: avg() on a MovingAverage whose window is empty (e.g. right after reset())
\* fails instead of returning a value: no avg() call on an empty window hands a
\* result back, so what the last avg() call returned stays as it was.
C11_EmptyAvgFails ==
    [][mavg.queue = <<>> => avg_out' = avg_out]_vars

\* the object reached from m by the updates us, in order
RECURSIVE ReplayUpdates(_, _)
ReplayUpdates(m, us) ==
    IF us = <<>> THEN m
    ELSE ReplayUpdates(AverageMeter_update_obj(m, Head(us)[1], Head(us)[2]), Tail(us))

\* the object reached from m by pushing the values vs, in order
RECURSIVE ReplayPushes(_, _)
ReplayPushes(m, vs) ==
    IF vs = <<>> THEN m
    ELSE ReplayPushes(MovingAverage_push_obj(m, Head(vs)), Tail(vs))

\* C12: reset() erases history on both statistics: whatever came before the last
\* reset, the object is the one reached by the operations since that reset alone,
\* starting for the cumulative statistic from val, avg, sum and count all 0 and for
\* the windowed statistic from no stored value.
C12_ResetErasesHistory ==
    /\ meter = ReplayUpdates([val |-> 0, avg |-> <<0, 1>>, sum |-> 0, count |-> 0],
                             updates)
    /\ mavg = ReplayPushes([window_size |-> mavg.window_size, queue |-> <<>>], pushed)
    /\ updates = <<>> => meter.val = 0 /\ meter.avg = <<0, 1>> /\ meter.sum = 0 /\ meter.count = 0
    /\ pushed = <<>> => mavg.queue = <<>>

\* a reset happened (only then can the first update carry multiplicity 2) and two
\* updates followed it
C12_Witness ==
    /\ Len(updates) = 2
    /\ updates[1] = <<2, 2>>
    /\ updates[2] = <<-1, 1>>
    /\ meter = [val |-> -1, avg |-> <<1, 1>>, sum |-> 3, count |-> 3]

\* C13 as stated: count is monotonically non-decreasing across any sequence of
\* update(v, n) calls and, once positive, never returns to 0 unless reset() is called.
C13_CountMonotone ==
    [][updates' # <<>> =>
          /\ meter'.count >= meter.count
          /\ meter.count > 0 => meter'.count # 0]_vars

\* C13 amended: update(v, n) changes count by exactly n, for every integer n; count
\* does not decrease, and once positive stays positive, across updates with n >= 0,
\* and an update with n < 0 lowers it, to 0 or below when n <= -count.
C13_CountFollowsMultiplicity ==
    [][updates' # <<>> =>
          LET n == updates'[Len(updates')][2]
          IN /\ meter'.count = meter.count + n
             /\ n >= 0 => /\ meter'.count >= meter.count
                          /\ meter.count > 0 => meter'.count > 0
             /\ n < 0 => meter'.count < meter.count]_vars

\* the count rose by 2, then an update of multiplicity -1 lowered it, with no reset
C13_Witness ==
    /\ Len(updates) = 3
    /\ updates[1][2] = 1
    /\ updates[2][2] = 2
    /\ updates[3][2] = -1
    /\ meter.count = 2

\* the last element of a non-empty sequence
Last(s) == s[Len(s)]

\* the step is a log_metrics call whose body ran on the process of rank 0
LogMetricsStep == call'.op = "log_metrics" /\ call'.proc = 0 /\ call'.args # NoArgs

\* C14: log_metrics(metrics, step, prefix) on the coordinator, for either sink,
\* records every entry (name, value) of metrics as exactly one scalar point under
\* the key prefix+name at the given step and nothing under any other key; the
\* structured sink additionally writes exactly one summary text line per call.
C14_MetricsUnderPrefixedName ==
    [][LogMetricsStep =>
          LET a == call'.args
              n == Len(a.metrics)
          IN IF kind = "lightning"
             THEN /\ Len(scalars'[0]) = Len(scalars[0]) + n
                  /\ SubSeq(scalars'[0], 1, Len(scalars[0])) = scalars[0]
                  /\ \A i \in 1 .. n :
                        LET pt == scalars'[0][Len(scalars[0]) + i]
                        IN /\ pt.tag = a.prefix \o a.metrics[i][1]
                           /\ pt.value = a.metrics[i][2]
                           /\ pt.step = a.step
                  /\ Len(textlog'[0]) = Len(textlog[0]) + 1
                  /\ SubSeq(textlog'[0], 1, Len(textlog[0])) = textlog[0]
             ELSE /\ Len(remote'[0].log) = Len(remote[0].log) + 1
                  /\ SubSeq(remote'[0].log, 1, Len(remote[0].log)) = remote[0].log
                  /\ Last(remote'[0].log).op = "log"
                  /\ Last(remote'[0].log).step = a.step
                  /\ Last(remote'[0].log).metrics =
                        [i \in 1 .. n |-> <<a.prefix \o a.metrics[i][1], a.metrics[i][2]>>]
      ]_vars

\* the step is a log_metrics call on the process of rank 0 with an empty mapping
EmptyMetricsStep == LogMetricsStep /\ call'.args.metrics = <<>>

\* C15 as stated: log_metrics called with an empty metrics mapping is a no-op on
\* every sink: it does not fail and it leaves the text log, the scalar series and
\* every other sink state unchanged.
C15_EmptyMetricsNoOp ==
    [][EmptyMetricsStep =>
          /\ call'.err = "none"
          /\ textlog' = textlog
          /\ scalars' = scalars
          /\ sink' = sink
          /\ disk' = disk
          /\ remote' = remote]_vars

\* C15 amended: log_metrics called with an empty metrics mapping does not fail,
\* records no scalar point and creates no file or writer, but it is not a no-op: the
\* structured sink still appends its one summary line "<prefix>: {}" to the text
\* log, and the wandb sink still stores the prefix and issues one log call that
\* carries no metric.
C15_EmptyMetricsStillLogged ==
    [][EmptyMetricsStep =>
          LET a == call'.args
          IN /\ call'.err = "none"
             /\ scalars' = scalars
             /\ disk' = disk
             /\ provider_calls' = provider_calls
             /\ IF kind = "lightning"
                THEN /\ sink' = sink
                     /\ remote' = remote
                     /\ textlog' = [textlog EXCEPT ![0] =
                                       Append(@, <<"INFO", a.prefix, ": ", <<>> >>)]
                ELSE /\ textlog' = textlog
                     /\ sink' = [sink EXCEPT ![0]._prefix = a.prefix]
                     /\ remote' = [remote EXCEPT ![0].log =
                                      Append(@, [op |-> "log", metrics |-> <<>>,
                                                 step |-> a.step])]]_vars

\* the structured sink of rank 0 was called with an empty mapping and a prefix: the
\* summary line is in the text log, no point in the scalar series
C15_Witness ==
    /\ kind = "lightning"
    /\ call.op = "log_metrics" /\ call.proc = 0 /\ call.args # NoArgs
    /\ call.args.metrics = <<>>
    /\ textlog[0] = << <<"INFO", "Val_metrics/", ": ", <<>> >> >>
    /\ scalars[0] = <<>>
    /\ ~sink[0]._experiment.some

\* C16: accessing the structured sink's experiment from a process whose rank is not
\* 0 is a precondition violation that fails fast; it never returns a usable writer
\* and never creates one.
C16_ExperimentOffRankZeroFails ==
    (call.op = "experiment" /\ call.proc # 0) =>
        /\ call.err # "none"
        /\ ~sink[call.proc]._experiment.some
        /\ "log_dir/events" \notin disk[call.proc]

\* C17: over the whole lifetime of a sink on a process of rank # 0, its
\* construction included, no durable write happens: that process creates no
\* directory and no file.
C17_NoDurableWriteOffRankZero ==
    \A p \in Procs \ {0} : disk[p] = {}

\* C18: update never divides by zero: for every integer n, 0 and negative values
\* included, when count is not > 0 after the update avg keeps its previous value,
\* and when count is > 0 avg is sum / count of the updated sum and count.
C18_NoDivisionByZero ==
    [][updates' # <<>> =>
          IF meter'.count > 0
          THEN RatEq(meter'.avg, meter'.sum, meter'.count)
          ELSE meter'.avg = meter.avg]_vars

\* an update of multiplicity -1 took count to 0 with a sum of 1 left: avg is still
\* the 2 computed at construction
C18_Witness ==
    /\ updates = << <<2, 1>>, <<1, -1>> >>
    /\ meter.count = 0
    /\ meter.sum = 1
    /\ meter.avg = <<2, 1>>

\* C19: in _log_eval_table the id-to-filename cache is never read while it is still
\* None: for every results mapping and every integer num_eval_samples, 0 and
\* negative values included, no log_val_results call fails on a lookup in None.
C19_CacheNeverReadWhileNone ==
    call.op = "log_val_results" => call.err # "TypeError"

\* the predictions that the results mapping of the last call holds for a sample id
PredsOf(id) ==
    LET i == CHOOSE k \in 1 .. Len(eval_in) : eval_in[k][1] = id
    IN eval_in[i][2]

\* C20: every row submitted in the eval_samples table has exactly
\* 2 + len(class_names) cells: the sample id, the annotated image, then one average
\* per class in class_names order; so the width of each row equals the number of
\* columns of the table.
C20_RowWidth ==
    \A t \in 1 .. Len(eval_sent) :
        \A r \in 1 .. Len(eval_sent[t].data) :
            LET row == eval_sent[t].data[r]
            IN /\ Len(row) = 2 + Len(ClassNames)
               /\ Len(row) = Len(eval_sent[t].columns)
               /\ row[1] \in SampleIds
               /\ row[2].classes = ClassNames
               /\ \A c \in ClassIds :
                     /\ eval_sent[t].columns[3 + c] = ClassNames[c + 1]
                     /\ LET q == QualifyingOf(PredsOf(row[1]), c)
                        IN IF q # <<>>
                           THEN RatEq(row[3 + c], ConfSum(q), Len(q))
                           ELSE row[3 + c] = Frac(0)

\* a submitted table of two rows: the first sample has detections of class 0 only,
\* the second no detection that reaches the threshold
C20_Witness ==
    /\ Len(eval_sent) = 1
    /\ Len(eval_sent[1].data) = 2
    /\ eval_in = << <<2, PredsExample>>, <<1, PredsLow>> >>
    /\ Len(eval_sent[1].data[1]) = 4
    /\ eval_sent[1].data[2][3] = Frac(0)

====
